---------------------------- MODULE Spec2Model ----------------------------
(***************************************************************************)
(* A model of the repository's two programs:                               *)
(*   src/task_1.py        MaxFlow (add_edge, _build_residual,              *)
(*                        _bfs_augment, edmonds_karp) and the proportional *)
(*                        decomposition of build_and_run;                  *)
(*   src/task_2/trie.py,  Trie (put, delete, keys) and Homework            *)
(*   src/task_2/task_2.py (count_words_with_suffix, has_prefix).           *)
(* Python dicts keep insertion order and the code iterates over them, so a *)
(* dict is modelled as a sequence of <<key, value>> pairs.                 *)
(***************************************************************************)
EXTENDS Integers, Sequences, FiniteSets, TLC

VARIABLES
    graph,        \* MaxFlow.graph: dict u -> dict v -> capacity
    nodes,        \* MaxFlow.nodes: set of node names
    cursor,       \* the caller's position in its edge table (build_and_run's loops)
    pc,           \* "build" | "loop" | "done" | "raised"
    call,         \* the last call made on the MaxFlow object, with its arguments
    result,       \* the outcome of the last call: "ok" | an exception name | "none"
    src,          \* edmonds_karp's s
    snk,          \* edmonds_karp's t
    residual,     \* edmonds_karp's local residual
    total_flow,   \* edmonds_karp's local total_flow
    aug,          \* edmonds_karp's local aug of the last iteration (0 before the first)
    flow_matrix,  \* edmonds_karp's returned flow_matrix
    terminal_store_flow,  \* build_and_run's table T -> (M -> flow)
    rpc,          \* build_and_run's position: the loop or call it is at
    max_flow_value,  \* build_and_run's max_flow_value (line 262)
    in_T_to_S,    \* build_and_run's dict S -> (T -> flow)
    in_total_S,   \* build_and_run's dict S -> total inflow
    out_S_to_M,   \* build_and_run's dict S -> (M -> flow)
    shares,       \* build_and_run's dict T -> share, of the current warehouse
    rows,         \* build_and_run's list of CSV rows
    epos,         \* the position in the loop over edges_T_S or edges_S_M
    wpos,         \* the position in "for s in warehouses" (line 285)
    mpos,         \* the position in a loop over stores (lines 294, 306)
    tpos,         \* the position in a loop over terminals (lines 297, 305)
    root,         \* Trie.root: a node is [value, children], children a dict
    size,         \* Trie.size
    ops,          \* the number of put and delete calls made on the trie
    tcall,        \* the last put or delete call made on the trie, with its outcome
    tres          \* the last query since then and its return: <<name, argument, value>>

flowVars == <<graph, nodes, cursor, pc, call, result, src, snk, residual,
              total_flow, aug, flow_matrix>>

runVars == <<terminal_store_flow, rpc, max_flow_value, in_T_to_S, in_total_S,
             out_S_to_M, shares, rows, epos, wpos, mpos, tpos>>

trieVars == <<root, size, ops, tcall, tres>>

vars == <<flowVars, runVars, trieVars>>

None == "None"

-----------------------------------------------------------------------------
(* Python dict, insertion-ordered: a sequence of <<key, value>> pairs.     *)

DHas(d, k) == \E i \in 1..Len(d) : d[i][1] = k

DIdx(d, k) == CHOOSE i \in 1..Len(d) : d[i][1] = k

DGet(d, k, dflt) == IF DHas(d, k) THEN d[DIdx(d, k)][2] ELSE dflt

DSet(d, k, x) ==
    IF DHas(d, k) THEN [d EXCEPT ![DIdx(d, k)] = <<k, x>>] ELSE Append(d, <<k, x>>)

DSetDefault(d, k, x) == IF DHas(d, k) THEN d ELSE Append(d, <<k, x>>)

DKeys(d) == [i \in 1..Len(d) |-> d[i][1]]

DKeySet(d) == {d[i][1] : i \in 1..Len(d)}

RECURSIVE SumSeq(_)
SumSeq(q) == IF q = <<>> THEN 0 ELSE Head(q) + SumSeq(Tail(q))

Min2(a, b) == IF a <= b THEN a ELSE b

-----------------------------------------------------------------------------
(* Bounds of the flow model.                                               *)

MaxCap == 1

Caps == 0..MaxCap

NegCaps == {-1}

\* The caller's edge table, walked in order like build_and_run's tables; a row
\* may be skipped.  It holds a network whose maximum flow needs a cancellation
\* (s-a-d-t first, then s-b-d-a-c-t).
EdgeTable ==
    << <<"s", "a">>, <<"s", "b">>, <<"a", "d">>, <<"a", "c">>, <<"b", "d">>,
       <<"d", "t">>, <<"c", "t">> >>

\* After the table the caller may add one more edge: the reverse of a table
\* edge (an antiparallel pair), a table edge again (accumulation) or a
\* self-loop.
ExtraEdges == {<<"d", "a">>, <<"s", "a">>, <<"a", "a">>}

\* The edges the caller may add at position j.
Row(j) == IF j <= Len(EdgeTable) THEN {EdgeTable[j]} ELSE ExtraEdges

LastRow == Len(EdgeTable) + 1

EdgeTable_All == {EdgeTable[j] : j \in 1..Len(EdgeTable)} \cup ExtraEdges

SolvePairs == {<<"s", "t">>, <<"d", "a">>, <<"s", "s">>}

-----------------------------------------------------------------------------
(* MaxFlow.add_edge                                                        *)

add_edge_graph(g, u, v, c) ==
    LET g1 == DSetDefault(g, u, <<>>)            \* defaultdict: self.graph[u]
        row == DGet(g1, u, <<>>)
        g2 == DSet(g1, u, DSet(row, v, DGet(row, v, 0) + c))
    IN  DSetDefault(g2, v, <<>>)

\* add_edge with the capacity check after the two nodes.add calls.
add_edge_late_check(g, ns, u, v, c) ==
    IF c < 0
    THEN [raised |-> "ValueError", graph |-> g, nodes |-> ns \cup {u, v}]
    ELSE [raised |-> "ok", graph |-> add_edge_graph(g, u, v, c),
          nodes |-> ns \cup {u, v}]

add_edge(g, ns, u, v, c) ==
    IF c < 0
    THEN [raised |-> "ValueError", graph |-> g, nodes |-> ns]
    ELSE [raised |-> "ok", graph |-> add_edge_graph(g, u, v, c),
          nodes |-> ns \cup {u, v}]

-----------------------------------------------------------------------------
(* MaxFlow._build_residual                                                 *)

\* build_inner writing res[v][u] = 0 in place of the setdefault of line 81.
RECURSIVE build_inner_overwrite(_, _, _, _)
build_inner_overwrite(res, u, vs, j) ==
    IF j > Len(vs) THEN res
    ELSE LET v == vs[j]
             r1 == DSetDefault(res, v, <<>>)
         IN  CHOOSE out \in {build_inner_overwrite(r2, u, vs, j + 1) :
                                r2 \in {DSet(r1, v, DSet(DGet(r1, v, <<>>), u, 0))}} : TRUE

RECURSIVE build_inner(_, _, _, _)
build_inner(res, u, vs, j) ==
    IF j > Len(vs) THEN res
    ELSE LET v == vs[j]
             r1 == DSetDefault(res, v, <<>>)
         IN  CHOOSE out \in {build_inner(r2, u, vs, j + 1) :
                                r2 \in {DSet(r1, v, DSetDefault(DGet(r1, v, <<>>), u, 0))}} : TRUE

RECURSIVE build_outer(_, _, _)
build_outer(res, us, i) ==
    IF i > Len(us) THEN res
    ELSE CHOOSE out \in
            {build_outer(r1, us, i + 1) :
                r1 \in {build_inner(res, us[i], DKeys(DGet(res, us[i], <<>>)), 1)}} : TRUE

build_residual(g) == build_outer(g, DKeys(g), 1)

-----------------------------------------------------------------------------
(* MaxFlow._bfs_augment                                                    *)

\* The walk back from t along parent, taking the minimum residual capacity.
\* b is <<>> for float("inf") and <<n>> for the number n.
RECURSIVE bottleneck_walk(_, _, _, _)
bottleneck_walk(res, parent, x, b) ==
    IF parent[x] = None THEN b
    ELSE LET p == parent[x]
             c == DGet(DGet(res, p, <<>>), x, 0)
         IN  bottleneck_walk(res, parent, p,
                             IF b = <<>> THEN <<c>> ELSE <<Min2(b[1], c)>>)

RECURSIVE bfs_loop(_, _, _, _)
RECURSIVE bfs_scan(_, _, _, _, _, _, _)
RECURSIVE bfs_scan_nonneg(_, _, _, _, _, _, _)

\* bfs_scan following every edge of residual capacity >= 0.
bfs_scan_nonneg(res, t, parent, q, u, items, j) ==
    IF j > Len(items) THEN bfs_loop(res, t, parent, q)
    ELSE LET v   == items[j][1]
             cap == items[j][2]
         IN  IF v \notin DOMAIN parent /\ cap >= 0
             THEN LET parent2 == parent @@ (v :> u)
                  IN  IF v = t
                      THEN [kind |-> "path",
                            bottleneck |-> bottleneck_walk(res, parent2, v, <<>>)[1],
                            parent |-> parent2]
                      ELSE bfs_scan_nonneg(res, t, parent2, Append(q, v), u, items,
                                           j + 1)
             ELSE bfs_scan_nonneg(res, t, parent, q, u, items, j + 1)

bfs_scan(res, t, parent, q, u, items, j) ==
    IF j > Len(items) THEN bfs_loop(res, t, parent, q)
    ELSE LET v   == items[j][1]
             cap == items[j][2]
         IN  IF v \notin DOMAIN parent /\ cap > 0
             THEN LET parent2 == parent @@ (v :> u)
                  IN  IF v = t
                      THEN [kind |-> "path",
                            bottleneck |-> bottleneck_walk(res, parent2, v, <<>>)[1],
                            parent |-> parent2]
                      ELSE bfs_scan(res, t, parent2, Append(q, v), u, items, j + 1)
             ELSE bfs_scan(res, t, parent, q, u, items, j + 1)

\* bfs_loop over a residual that answers a missing node with an empty dict.
RECURSIVE bfs_loop_defaultdict(_, _, _, _)
bfs_loop_defaultdict(res, t, parent, q) ==
    IF q = <<>> THEN [kind |-> "none"]
    ELSE bfs_scan(res, t, parent, Tail(q), Head(q), DGet(res, Head(q), <<>>), 1)

bfs_loop(res, t, parent, q) ==
    IF q = <<>> THEN [kind |-> "none"]
    ELSE LET u == Head(q)
         IN  IF ~DHas(res, u) THEN [kind |-> "KeyError"]      \* res[u]
             ELSE bfs_scan(res, t, parent, Tail(q), u, DGet(res, u, <<>>), 1)

bfs_augment(res, s, t) == bfs_loop(res, t, (s :> None), <<s>>)

-----------------------------------------------------------------------------
(* MaxFlow.edmonds_karp                                                    *)

\* push_flow without line 140: the reverse capacity is not increased.
RECURSIVE push_flow_no_reverse(_, _, _, _)
push_flow_no_reverse(res, parent, v, a) ==
    IF parent[v] = None THEN res
    ELSE LET u  == parent[v]
             ru == DGet(res, u, <<>>)
             r1 == DSet(res, u, DSet(ru, v, DGet(ru, v, 0) - a))
         IN  push_flow_no_reverse(r1, parent, u, a)

\* Lines 136-141: the walk back from t, updating the residual capacities.
RECURSIVE push_flow(_, _, _, _)
push_flow(res, parent, v, a) ==
    IF parent[v] = None THEN res
    ELSE LET u  == parent[v]
             ru == DGet(res, u, <<>>)
             r1 == DSet(res, u, DSet(ru, v, DGet(ru, v, 0) - a))
             rv == DGet(r1, v, <<>>)
             r2 == DSet(r1, v, DSet(rv, u, DGet(rv, u, 0) + a))
         IN  push_flow(r2, parent, u, a)

\* flow_row without the clamp of line 150.
flow_row_unclamped(g, res, u) ==
    LET row == DGet(g, u, <<>>)
    IN  [j \in 1..Len(row) |->
            <<row[j][1], row[j][2] - DGet(DGet(res, u, <<>>), row[j][1], 0)>>]

\* flow_row reading the reverse residual entry res[v][u] as the flow.
flow_row_reverse(g, res, u) ==
    LET row == DGet(g, u, <<>>)
    IN  [j \in 1..Len(row) |->
            <<row[j][1], DGet(DGet(res, row[j][1], <<>>), u, 0)>>]

\* flow_row taking the absolute value of used in place of the clamp of
\* line 150.
flow_row_abs(g, res, u) ==
    LET row == DGet(g, u, <<>>)
    IN  [j \in 1..Len(row) |->
            LET used == row[j][2] - DGet(DGet(res, u, <<>>), row[j][1], 0)
            IN  <<row[j][1], IF used > 0 THEN used ELSE 0 - used>>]

\* Lines 144-150: flow_matrix is a defaultdict(dict): a node gets a row when
\* its first edge is written.
flow_row(g, res, u) ==
    LET row == DGet(g, u, <<>>)
    IN  [j \in 1..Len(row) |->
            LET v    == row[j][1]
                cap0 == row[j][2]
                used == cap0 - DGet(DGet(res, u, <<>>), v, 0)
            IN  <<v, IF used > 0 THEN used ELSE 0>>]

extract_flow(g, res) ==
    LET full == [i \in 1..Len(g) |-> <<g[i][1], flow_row(g, res, g[i][1])>>]
    IN  SelectSeq(full, LAMBDA e : e[2] # <<>>)

-----------------------------------------------------------------------------
(* The actions of the flow program.                                        *)

EmptyNode == [value |-> None, children |-> <<>>]       \* TrieNode()

Init ==
    /\ terminal_store_flow = <<>>
    /\ wpos = 1
    /\ rpc = "network"
    /\ max_flow_value = None
    /\ in_T_to_S = <<>>
    /\ in_total_S = <<>>
    /\ out_S_to_M = <<>>
    /\ shares = <<>>
    /\ rows = <<>>
    /\ epos = 1
    /\ mpos = 1
    /\ tpos = 1
    /\ root = EmptyNode
    /\ size = 0
    /\ ops = 0
    /\ tcall = <<"init">>
    /\ tres = <<>>
    /\ graph = <<>>
    /\ nodes = {}
    /\ cursor = 1
    /\ pc = "build"
    /\ call = <<"init">>
    /\ result = "none"
    /\ src = None
    /\ snk = None
    /\ residual = <<>>
    /\ total_flow = 0
    /\ aug = 0
    /\ flow_matrix = <<>>

AddEdge(j, e, c) ==
    /\ pc = "build"
    /\ j >= cursor
    /\ e \in Row(j)
    /\ LET u == e[1]
           v == e[2]
           r == add_edge(graph, nodes, u, v, c)
       IN  /\ graph' = r.graph
           /\ nodes' = r.nodes
           /\ result' = r.raised
           /\ call' = <<"add_edge", u, v, c>>
           /\ pc' = IF r.raised = "ok" THEN "build" ELSE "raised"
           /\ cursor' = IF r.raised = "ok" THEN j + 1 ELSE cursor
    /\ UNCHANGED <<src, snk, residual, total_flow, aug, flow_matrix>>
    /\ UNCHANGED <<runVars, trieVars>>

\* edmonds_karp up to the loop: lines 122-124.
Solve(s, t) ==
    /\ pc = "build"
    /\ pc' = "loop"
    /\ call' = <<"edmonds_karp", s, t>>
    /\ result' = "none"
    /\ src' = s
    /\ snk' = t
    /\ residual' = build_residual(graph)
    /\ total_flow' = 0
    /\ cursor' = LastRow + 1
    /\ UNCHANGED <<graph, nodes, aug, flow_matrix>>
    /\ UNCHANGED <<runVars, trieVars>>

\* One iteration of the loop, lines 127-141; when no path is left, the break,
\* the extraction of lines 144-150 and the return.
Iterate ==
    /\ pc = "loop"
    /\ \E r \in {bfs_augment(residual, src, snk)} :
           CASE r.kind = "path" ->
                  /\ aug' = r.bottleneck
                  /\ total_flow' = total_flow + r.bottleneck
                  /\ residual' = push_flow(residual, r.parent, snk, r.bottleneck)
                  /\ UNCHANGED <<pc, result, flow_matrix>>
             [] r.kind = "none" ->
                  /\ flow_matrix' = extract_flow(graph, residual)
                  /\ pc' = "done"
                  /\ result' = "ok"
                  /\ UNCHANGED <<aug, total_flow, residual>>
             [] r.kind = "KeyError" ->
                  /\ pc' = "raised"
                  /\ result' = "KeyError"
                  /\ UNCHANGED <<aug, total_flow, residual, flow_matrix>>
    /\ UNCHANGED <<graph, nodes, cursor, call, src, snk>>
    /\ UNCHANGED <<runVars, trieVars>>

NextFlow ==
    \/ \E j \in 1..LastRow, e \in EdgeTable_All, c \in Caps \cup NegCaps :
          AddEdge(j, e, c)
    \/ \E p \in SolvePairs : Solve(p[1], p[2])
    \/ Iterate

SpecFlow == Init /\ [][NextFlow]_vars

-----------------------------------------------------------------------------
(* Reading the flow program's state.                                       *)

RECURSIVE SumOver(_, _)
SumOver(S, f) ==
    IF S = {} THEN 0
    ELSE LET x == CHOOSE y \in S : TRUE IN f[x] + SumOver(S \ {x}, f)

Cap(u, v) == DGet(DGet(graph, u, <<>>), v, 0)

Flow(u, v) == DGet(DGet(flow_matrix, u, <<>>), v, 0)

\* The <<u, v>> pairs that have an entry in a dict of dicts.
Entries(d) ==
    UNION {{<<d[i][1], d[i][2][j][1]>> : j \in 1..Len(d[i][2])} : i \in 1..Len(d)}

\* The capacity of the cut (S, nodes \ S): the capacities of the graph's
\* entries that leave S.
CutCap(S) ==
    SumSeq([i \in 1..Len(graph) |->
        IF graph[i][1] \notin S THEN 0
        ELSE SumSeq([j \in 1..Len(graph[i][2]) |->
                IF graph[i][2][j][1] \in S THEN 0 ELSE graph[i][2][j][2]])])

MinCut(s, t) ==
    LET caps == {CutCap(S) : S \in {X \in SUBSET nodes : s \in X /\ t \notin X}}
    IN  CHOOSE m \in caps : \A x \in caps : m <= x

\* The flow into n: the entries flow_matrix[u][n] over the rows u.
Inflow(n)  == SumSeq([i \in 1..Len(flow_matrix) |-> DGet(flow_matrix[i][2], n, 0)])

\* The flow out of n: the entries of the row flow_matrix[n].
Outflow(n) ==
    LET row == DGet(flow_matrix, n, <<>>) IN SumSeq([j \in 1..Len(row) |-> row[j][2]])

SourceOutCap == SumOver(nodes, [v \in nodes |-> Cap(src, v)])

Solved == pc = "done" /\ src # snk /\ src \in nodes /\ snk \in nodes

\* The seven table edges with capacity 1 and nothing else: the network whose
\* second augmenting path s-b-d-a-c-t cancels the flow of the first on a->d.
CancellationNetwork ==
    /\ Entries(graph) = {EdgeTable[j] : j \in 1..Len(EdgeTable)}
    /\ \A e \in Entries(graph) : Cap(e[1], e[2]) = 1

-----------------------------------------------------------------------------
(* The claims about the flow program.                                      *)

\* C1: when edmonds_karp(s, t) returns for distinct nodes s, t of the graph,
\* total_flow equals the minimum capacity over all cuts separating s from t.
MaxFlowEqualsMinCut == Solved => total_flow = MinCut(src, snk)

\* C1 witness: the cancellation network solved from s to t with flow 2, the
\* unit first pushed over a->d cancelled.
MaxFlowEqualsMinCutWitness ==
    /\ Solved /\ src = "s" /\ snk = "t"
    /\ CancellationNetwork
    /\ total_flow = 2
    /\ Flow("a", "d") = 0 /\ Flow("a", "c") = 1 /\ Flow("b", "d") = 1

\* C2: in the returned flow_matrix every node other than s and t has equal
\* total inflow and total outflow, antiparallel edge pairs included.
FlowConservation ==
    pc = "done" => \A n \in nodes \ {src, snk} : Inflow(n) = Outflow(n)

\* C2 witness: a solved graph holding both a->d and d->a, with flow through
\* the inner node d.
FlowConservationWitness ==
    /\ Solved /\ src = "s" /\ snk = "t"
    /\ {<<"a", "d">>, <<"d", "a">>} \subseteq Entries(graph)
    /\ Cap("d", "a") >= 1
    /\ Flow("a", "d") >= 1
    /\ Inflow("d") >= 1

\* C3: flow_matrix has an entry exactly for the edges of the graph, and each
\* flow lies between 0 and the edge's capacity.
FlowWithinCapacity ==
    pc = "done" =>
        /\ Entries(flow_matrix) = Entries(graph)
        /\ \A e \in Entries(graph) :
              0 <= Flow(e[1], e[2]) /\ Flow(e[1], e[2]) <= Cap(e[1], e[2])

\* C3 witness: a solved graph with a saturated edge, an edge carrying less
\* than its capacity and an antiparallel edge carrying nothing.
FlowWithinCapacityWitness ==
    /\ Solved
    /\ \E e \in Entries(graph) : Flow(e[1], e[2]) = Cap(e[1], e[2]) /\ Cap(e[1], e[2]) >= 1
    /\ \E e \in Entries(graph) : Flow(e[1], e[2]) < Cap(e[1], e[2])
    /\ \E e \in Entries(graph) :
          <<e[2], e[1]>> \in Entries(graph) /\ e[1] # e[2] /\ Flow(e[1], e[2]) >= 1

\* C4: the loop ends.  Every iteration that finds a path pushes an integer
\* bottleneck of at least 1 and so strictly increases total_flow, total_flow
\* never exceeds the capacity leaving the source: at most SourceOutCap
\* iterations find a path, and the next one ends the loop.
LoopTerminates ==
    /\ [][(pc = "loop" /\ pc' = "loop") =>
            (aug' >= 1 /\ total_flow' = total_flow + aug' /\ total_flow' > total_flow)]_vars
    /\ [](pc \in {"loop", "done"} => total_flow <= SourceOutCap)

\* C4 witness: the loop after two augmentations.
LoopTerminatesWitness == pc = "loop" /\ total_flow >= 2 /\ aug >= 1

\* C5 as claimed: a solve call with s = t, or with s or t not a node, ends
\* in an InvalidEndpoints error and returns no result.
InvalidEndpoints ==
    call[1] = "edmonds_karp" /\ (src = snk \/ src \notin nodes \/ snk \notin nodes)

InvalidEndpointsRejected ==
    (InvalidEndpoints /\ pc \in {"done", "raised"}) =>
        (pc = "raised" /\ result = "InvalidEndpoints")

\* C5 amended: edmonds_karp does not check its endpoints.  With s not a node
\* the call fails with a KeyError in the first search, and that is its only
\* failure; with s a node and s = t or t not a node it returns total_flow 0,
\* an all-zero flow_matrix and the residual as _build_residual made it.
EndpointsUnchecked ==
    call[1] = "edmonds_karp" =>
        /\ (pc = "raised") => (src \notin nodes /\ result = "KeyError" /\ total_flow = 0)
        /\ (pc = "done") => src \in nodes
        /\ (pc = "done" /\ InvalidEndpoints) =>
              /\ total_flow = 0
              /\ \A e \in Entries(flow_matrix) : Flow(e[1], e[2]) = 0
              /\ residual = build_residual(graph)

\* C5 witness: a call with s = t on a graph with edges leaving s has returned.
EndpointsUncheckedWitness ==
    /\ pc = "done" /\ call[1] = "edmonds_karp" /\ src = snk
    /\ SourceOutCap >= 1

\* C6: add_edge with a negative capacity raises and leaves graph and nodes as
\* they were.
NegativeCapacityRejected ==
    [][(pc = "build" /\ call'[1] = "add_edge" /\ call'[4] < 0) =>
          (result' = "ValueError" /\ pc' = "raised" /\ graph' = graph /\ nodes' = nodes)]_vars

\* C6 witness: a negative capacity refused after earlier add_edge calls, for
\* an edge whose endpoints are not nodes yet.
NegativeCapacityRejectedWitness ==
    /\ pc = "raised" /\ result = "ValueError"
    /\ call[1] = "add_edge" /\ call[4] < 0
    /\ graph # <<>>
    /\ call[2] \notin nodes /\ call[3] \notin nodes

-----------------------------------------------------------------------------
(* build_and_run: the tiered network of the program's tables, its maximum  *)
(* flow and the decomposition of the flow by <<terminal, store>> pairs.    *)
(* build_and_run takes no argument: the model follows its one run, a step  *)
(* per iteration of each of its loops.                                     *)

BigCap == 1000000000

SRC == "SRC"

SNK == "SNK"

terminals == <<"T1", "T2">>

warehouses == <<"S1", "S2", "S3", "S4">>

\* Line 217: [f"M{i}" for i in range(1, 15)]
stores == <<"M1", "M2", "M3", "M4", "M5", "M6", "M7",
            "M8", "M9", "M10", "M11", "M12", "M13", "M14">>

\* Line 221.
out_T == << <<"T1", 25 + 20 + 15>>, <<"T2", 15 + 30 + 10>> >>

\* Lines 224-227: the dict (t, s) -> capacity, in the order of the literal.
edges_T_S ==
    << << <<"T1", "S1">>, 25>>, << <<"T1", "S2">>, 20>>, << <<"T1", "S3">>, 15>>,
       << <<"T2", "S3">>, 15>>, << <<"T2", "S4">>, 30>>, << <<"T2", "S2">>, 10>> >>

\* Lines 230-236: the dict (s, m) -> capacity.
edges_S_M ==
    << << <<"S1", "M1">>, 15>>, << <<"S1", "M2">>, 10>>, << <<"S1", "M3">>, 20>>,
       << <<"S2", "M4">>, 15>>, << <<"S2", "M5">>, 10>>, << <<"S2", "M6">>, 25>>,
       << <<"S3", "M7">>, 20>>, << <<"S3", "M8">>, 15>>, << <<"S3", "M9">>, 10>>,
       << <<"S4", "M10">>, 20>>, << <<"S4", "M11">>, 10>>, << <<"S4", "M12">>, 15>>,
       << <<"S4", "M13">>, 5>>, << <<"S4", "M14">>, 10>> >>

\* Line 258: the sum of the capacities of the edges into store m.
cap_in(m) ==
    SumSeq([k \in 1..Len(edges_S_M) |->
               IF edges_S_M[k][1][2] = m THEN edges_S_M[k][2] ELSE 0])

\* Lines 242-259: the add_edge calls <<u, v, c>> of the four loops, in order.
network_edges ==
    [i \in 1..Len(terminals) |-> <<SRC, terminals[i], DGet(out_T, terminals[i], 0)>>]
    \o [i \in 1..Len(edges_T_S) |->
           <<edges_T_S[i][1][1], edges_T_S[i][1][2], edges_T_S[i][2]>>]
    \o [i \in 1..Len(edges_S_M) |->
           <<edges_S_M[i][1][1], edges_S_M[i][1][2], edges_S_M[i][2]>>]
    \o [i \in 1..Len(stores) |->
           <<stores[i], SNK,
             IF cap_in(stores[i]) > 0 THEN cap_in(stores[i]) ELSE BigCap>>]

\* Python floats are modelled as exact fractions <<numerator, denominator>> in
\* lowest terms; the code only divides, multiplies and adds non-negative
\* integers of small size, so a float is 0.0 exactly when its fraction is 0.
RECURSIVE Gcd(_, _)
Gcd(a, b) == IF b = 0 THEN a ELSE Gcd(b, a % b)

Frac(n, d) == LET g == Gcd(n, d) IN <<n \div g, d \div g>>

FracAdd(x, y) == Frac(x[1] * y[2] + y[1] * x[2], x[2] * y[2])

FracScale(k, x) == Frac(k * x[1], x[2])

FracZero == <<0, 1>>

\* round(v), line 308, for v >= 0: to the nearest integer, a half to the even
\* one.
Round(x) ==
    LET q == x[1] \div x[2]
        r == x[1] % x[2]
    IN  IF 2 * r < x[2] THEN q
        ELSE IF 2 * r > x[2] THEN q + 1
        ELSE IF q % 2 = 0 THEN q ELSE q + 1

\* Lines 242-259: one add_edge call of the loops that build the network.
AddNetworkEdge ==
    /\ rpc = "network"
    /\ pc = "build"
    /\ cursor <= Len(network_edges)
    /\ \E e \in {network_edges[cursor]} :
       \E r \in {add_edge(graph, nodes, e[1], e[2], e[3])} :
           /\ graph' = r.graph
           /\ nodes' = r.nodes
           /\ result' = r.raised
           /\ pc' = IF r.raised = "ok" THEN "build" ELSE "raised"
           /\ call' = <<"add_edge", e[1], e[2], e[3]>>
    /\ cursor' = cursor + 1
    /\ rpc' = IF cursor = Len(network_edges) THEN "solve" ELSE "network"
    /\ UNCHANGED <<src, snk, residual, total_flow, aug, flow_matrix>>
    /\ UNCHANGED <<terminal_store_flow, wpos, max_flow_value, in_T_to_S, in_total_S,
                   out_S_to_M, shares, epos, mpos, tpos, rows>>
    /\ UNCHANGED trieVars

\* Line 262, the call: edmonds_karp(SRC, SNK) up to its loop.
SolveNetwork ==
    /\ rpc = "solve"
    /\ pc = "build"
    /\ pc' = "loop"
    /\ call' = <<"edmonds_karp", SRC, SNK>>
    /\ result' = "none"
    /\ src' = SRC
    /\ snk' = SNK
    /\ residual' = build_residual(graph)
    /\ total_flow' = 0
    /\ rpc' = "running"
    /\ UNCHANGED <<graph, nodes, cursor, aug, flow_matrix>>
    /\ UNCHANGED <<terminal_store_flow, wpos, max_flow_value, in_T_to_S, in_total_S,
                   out_S_to_M, shares, epos, mpos, tpos, rows>>
    /\ UNCHANGED trieVars

\* Line 262, the return of edmonds_karp: max_flow_value is bound.
SolveReturn ==
    /\ rpc = "running"
    /\ pc = "done"
    /\ max_flow_value' = total_flow
    /\ epos' = 1
    /\ rpc' = "in_T_to_S"
    /\ UNCHANGED <<terminal_store_flow, wpos, in_T_to_S, in_total_S,
                   out_S_to_M, shares, mpos, tpos, rows>>
    /\ UNCHANGED <<flowVars, trieVars>>

\* Lines 272-273: one iteration of "for (t, s), _ in edges_T_S.items()".
InTSStep ==
    /\ rpc = "in_T_to_S"
    /\ epos <= Len(edges_T_S)
    /\ LET t == edges_T_S[epos][1][1]
           s == edges_T_S[epos][1][2]
       IN  in_T_to_S' = DSet(in_T_to_S, s, DSet(DGet(in_T_to_S, s, <<>>), t, Flow(t, s)))
    /\ epos' = epos + 1
    /\ rpc' = IF epos = Len(edges_T_S) THEN "in_total_S" ELSE "in_T_to_S"
    /\ UNCHANGED <<terminal_store_flow, wpos, max_flow_value, in_total_S,
                   out_S_to_M, shares, mpos, tpos, rows>>
    /\ UNCHANGED <<flowVars, trieVars>>

\* in_T_to_S[s] of a defaultdict: a missing row is created empty.
RECURSIVE touch_rows(_, _, _)
touch_rows(d, ks, i) ==
    IF i > Len(ks) THEN d ELSE touch_rows(DSetDefault(d, ks[i], <<>>), ks, i + 1)

\* sum(d.values())
SumValues(d) == SumSeq([i \in 1..Len(d) |-> d[i][2]])

\* Line 276: in_total_S = {s: sum(in_T_to_S[s].values()) for s in warehouses}
InTotalStep ==
    /\ rpc = "in_total_S"
    /\ in_T_to_S' = touch_rows(in_T_to_S, warehouses, 1)
    /\ in_total_S' = [i \in 1..Len(warehouses) |->
                        <<warehouses[i], SumValues(DGet(in_T_to_S, warehouses[i], <<>>))>>]
    /\ epos' = 1
    /\ rpc' = "out_S_to_M"
    /\ UNCHANGED <<terminal_store_flow, wpos, max_flow_value,
                   out_S_to_M, shares, mpos, tpos, rows>>
    /\ UNCHANGED <<flowVars, trieVars>>

\* Lines 280-281: one iteration of "for (s, m), _ in edges_S_M.items()"; after
\* the last one, line 284 creates the empty table.
OutSMStep ==
    /\ rpc = "out_S_to_M"
    /\ epos <= Len(edges_S_M)
    /\ LET s == edges_S_M[epos][1][1]
           m == edges_S_M[epos][1][2]
       IN  out_S_to_M' = DSet(out_S_to_M, s, DSet(DGet(out_S_to_M, s, <<>>), m, Flow(s, m)))
    /\ epos' = epos + 1
    /\ rpc' = IF epos = Len(edges_S_M) THEN "warehouses" ELSE "out_S_to_M"
    /\ wpos' = 1
    /\ terminal_store_flow' = IF epos = Len(edges_S_M) THEN <<>> ELSE terminal_store_flow
    /\ UNCHANGED <<max_flow_value, in_T_to_S, in_total_S, shares, mpos, tpos, rows>>
    /\ UNCHANGED <<flowVars, trieVars>>

\* Line 295 without the test: no store is skipped.
skip_store_never(flow_sm) == FALSE

\* Line 295: a store that gets nothing from the warehouse is skipped.
skip_store(flow_sm) == flow_sm = 0

\* Line 291: shares = {t: in_T_to_S[s].get(t, 0) / total_in for t in terminals}
shares_of(s, total_in) ==
    [i \in 1..Len(terminals) |->
        <<terminals[i],
          Frac(DGet(DGet(in_T_to_S, s, <<>>), terminals[i], 0), total_in)>>]

\* Lines 285-291: the head of one iteration of "for s in warehouses", or the
\* end of the loop.
WarehouseStep ==
    /\ rpc = "warehouses"
    /\ IF wpos > Len(warehouses)
       THEN /\ rpc' = "rows"
            /\ tpos' = 1
            /\ mpos' = 1
            /\ rows' = <<>>
            /\ UNCHANGED <<wpos, shares>>
       ELSE LET s        == warehouses[wpos]
                total_in == DGet(in_total_S, s, 0)
            IN  IF total_in = 0
                THEN /\ wpos' = wpos + 1
                     /\ UNCHANGED <<rpc, shares, mpos, tpos, rows>>
                ELSE /\ shares' = shares_of(s, total_in)
                     /\ mpos' = 1
                     /\ rpc' = "stores"
                     /\ UNCHANGED <<wpos, tpos, rows>>
    /\ UNCHANGED <<terminal_store_flow, max_flow_value, in_T_to_S, in_total_S,
                   out_S_to_M, epos>>
    /\ UNCHANGED <<flowVars, trieVars>>

\* Lines 294-296: the head of one iteration of
\* "for m, flow_sm in out_S_to_M[s].items()", or the end of the loop.
StoreStep ==
    /\ rpc = "stores"
    /\ LET out == DGet(out_S_to_M, warehouses[wpos], <<>>)
       IN  IF mpos > Len(out)
           THEN /\ wpos' = wpos + 1
                /\ rpc' = "warehouses"
                /\ UNCHANGED <<mpos, tpos>>
           ELSE IF skip_store(out[mpos][2])
           THEN /\ mpos' = mpos + 1
                /\ UNCHANGED <<wpos, rpc, tpos>>
           ELSE /\ tpos' = 1
                /\ rpc' = "terminals"
                /\ UNCHANGED <<wpos, mpos>>
    /\ UNCHANGED <<terminal_store_flow, max_flow_value, in_T_to_S, in_total_S,
                   out_S_to_M, shares, epos, rows>>
    /\ UNCHANGED <<flowVars, trieVars>>

\* Lines 297-298: one iteration of "for t, sh in shares.items()":
\* terminal_store_flow[t][m] += flow_sm * sh.
TerminalStep ==
    /\ rpc = "terminals"
    /\ tpos <= Len(shares)
    /\ LET out     == DGet(out_S_to_M, warehouses[wpos], <<>>)
           m       == out[mpos][1]
           flow_sm == out[mpos][2]
           t       == shares[tpos][1]
           sh      == shares[tpos][2]
           row     == DGet(terminal_store_flow, t, <<>>)
           x       == FracAdd(DGet(row, m, FracZero), FracScale(flow_sm, sh))
       IN  terminal_store_flow' = DSet(terminal_store_flow, t, DSet(row, m, x))
    /\ IF tpos = Len(shares)
       THEN /\ mpos' = mpos + 1
            /\ rpc' = "stores"
            /\ tpos' = tpos
       ELSE /\ tpos' = tpos + 1
            /\ UNCHANGED <<mpos, rpc>>
    /\ UNCHANGED <<wpos, max_flow_value, in_T_to_S, in_total_S,
                   out_S_to_M, shares, epos, rows>>
    /\ UNCHANGED <<flowVars, trieVars>>

\* Lines 305-308: one step of the two loops over terminal_store_flow: the
\* entry [t][m] = v is appended to rows as <<t, m, round(v)>> if v > 0.
RowStep ==
    /\ rpc = "rows"
    /\ IF tpos > Len(terminal_store_flow)
       THEN /\ rpc' = "sort"
            /\ UNCHANGED <<tpos, mpos, rows>>
       ELSE LET t   == terminal_store_flow[tpos][1]
                row == terminal_store_flow[tpos][2]
            IN  IF mpos > Len(row)
                THEN /\ tpos' = tpos + 1
                     /\ mpos' = 1
                     /\ UNCHANGED <<rpc, rows>>
                ELSE /\ rows' = IF row[mpos][2][1] > 0
                                THEN Append(rows, <<t, row[mpos][1], Round(row[mpos][2])>>)
                                ELSE rows
                     /\ mpos' = mpos + 1
                     /\ UNCHANGED <<rpc, tpos>>
    /\ UNCHANGED <<terminal_store_flow, wpos, max_flow_value, in_T_to_S, in_total_S,
                   out_S_to_M, shares, epos>>
    /\ UNCHANGED <<flowVars, trieVars>>

\* The position of x in the sequence q.
IndexOf(q, x) == CHOOSE i \in 1..Len(q) : q[i] = x

\* Line 309: the sort key (r[0], int(r[1][1:])).  The terminals "T1", "T2"
\* compare as their positions do, and store "M<i>" is stores[i].
row_before(a, b) ==
    \/ IndexOf(terminals, a[1]) < IndexOf(terminals, b[1])
    \/ a[1] = b[1] /\ IndexOf(stores, a[2]) < IndexOf(stores, b[2])

\* Line 309: rows.sort(...); the rows are then written out (lines 311-320).
SortStep ==
    /\ rpc = "sort"
    /\ rows' = SortSeq(rows, row_before)
    /\ rpc' = "end"
    /\ UNCHANGED <<terminal_store_flow, wpos, max_flow_value, in_T_to_S, in_total_S,
                   out_S_to_M, shares, epos, mpos, tpos>>
    /\ UNCHANGED <<flowVars, trieVars>>

NextRun ==
    \/ AddNetworkEdge
    \/ SolveNetwork
    \/ Iterate
    \/ SolveReturn
    \/ InTSStep
    \/ InTotalStep
    \/ OutSMStep
    \/ WarehouseStep
    \/ StoreStep
    \/ TerminalStep
    \/ RowStep
    \/ SortStep

SpecRun == Init /\ [][NextRun]_vars

Share(t, m) == DGet(DGet(terminal_store_flow, t, <<>>), m, FracZero)

WarehouseSet == {warehouses[i] : i \in 1..Len(warehouses)}

TerminalSet == {terminals[i] : i \in 1..Len(terminals)}

StoreSet == {stores[i] : i \in 1..Len(stores)}

\* The realized flow into warehouse s from the terminals.
InTotal(s) == SumOver(TerminalSet, [t \in TerminalSet |-> Flow(t, s)])

\* The loop of lines 285-298 has ended: the table is finished.
TableDone == rpc \in {"rows", "sort", "end"}

\* C7 as claimed: the table holds no zero entry; <<t, m>> has an entry only
\* if some warehouse s has positive flow t->s and positive flow s->m.
NoZeroEntries ==
    \A e \in Entries(terminal_store_flow) :
        /\ Share(e[1], e[2])[1] # 0
        /\ \E s \in WarehouseSet : Flow(e[1], s) > 0 /\ Flow(s, e[2]) > 0

\* C7 amended: the table can hold zero entries.  An entry <<t, m>> is written
\* only for a store m that some warehouse s with positive inflow sends
\* positive flow to, it is never negative, and it is positive only if some
\* warehouse s has positive flow t->s and positive flow s->m.  In the finished
\* table every such store has an entry for EVERY terminal, positive exactly
\* for the terminals that feed such a warehouse; the zero entries are left
\* out only of the rows built for the CSV file.
ZeroEntriesKept ==
    /\ \A e \in Entries(terminal_store_flow) :
          /\ \E s \in WarehouseSet : InTotal(s) > 0 /\ Flow(s, e[2]) > 0
          /\ Share(e[1], e[2])[1] >= 0 /\ Share(e[1], e[2])[2] > 0
          /\ Share(e[1], e[2])[1] > 0 =>
                \E s \in WarehouseSet : Flow(e[1], s) > 0 /\ Flow(s, e[2]) > 0
    /\ TableDone =>
          \A t \in TerminalSet, m \in StoreSet :
              /\ <<t, m>> \in Entries(terminal_store_flow) <=>
                    \E s \in WarehouseSet : InTotal(s) > 0 /\ Flow(s, m) > 0
              /\ Share(t, m)[1] > 0 <=>
                    \E s \in WarehouseSet : Flow(t, s) > 0 /\ Flow(s, m) > 0
    /\ rpc \in {"sort", "end"} =>
          {<<rows[i][1], rows[i][2]>> : i \in 1..Len(rows)} =
              {e \in Entries(terminal_store_flow) : Share(e[1], e[2])[1] > 0}

\* C7 witness: the run has ended with maximum flow 115; T2 sends nothing to
\* S1, which serves M1, and has the entry 0.0 for M1; T1 has all 15 units of
\* M1 and 20/3 of the 10 units of M5, which S2 gets from both terminals.
ZeroEntriesKeptWitness ==
    /\ rpc = "end" /\ max_flow_value = 115
    /\ <<"T2", "M1">> \in Entries(terminal_store_flow)
    /\ Share("T2", "M1") = FracZero
    /\ Share("T1", "M1") = <<15, 1>>
    /\ Share("T1", "M5") = <<20, 3>>
    /\ Len(rows) = 14

-----------------------------------------------------------------------------
(* Trie (trie.py) and Homework (task_2.py).  A string is a sequence of      *)
(* one-character strings; a node is [value, children] with children a dict  *)
(* char -> node in insertion order; a payload is a string and None is the   *)
(* string "None".                                                           *)

MaxOps == 3

Alphabet == {"a", "b"}

\* The keys put, deleted and looked up; the empty string is a key the
\* operations refuse.
Keys == {<<>>, <<"a">>, <<"b">>, <<"a", "b">>, <<"b", "a">>,
         <<"a", "b", "a">>, <<"a", "b", "b">>}

Values == {None, "p"}

\* The arguments of the queries: every string of at most two characters, and
\* the keys.
Strings == {<<>>} \cup {<<x>> : x \in Alphabet}
              \cup {<<x, y>> : x \in Alphabet, y \in Alphabet} \cup Keys

\* del d[k]
DDel(d, k) == SelectSeq(d, LAMBDA e : e[1] # k)

\* Trie.get, lines 30-35, from node nd and position i of key.
RECURSIVE get_from(_, _, _)
get_from(nd, key, i) ==
    IF i > Len(key) THEN nd.value
    ELSE IF ~DHas(nd.children, key[i]) THEN None
    ELSE get_from(DGet(nd.children, key[i], EmptyNode), key, i + 1)

\* Trie.get, lines 27-35: [raised, value]; the empty key raises TypeError
\* (lines 28-29).
get(r, key) ==
    IF key = <<>> THEN [raised |-> "TypeError", value |-> None]
    ELSE [raised |-> "ok", value |-> get_from(r, key, 1)]

\* Trie.put, lines 17-24: the node nd after the walk from position i of key
\* has created the missing children and set the value of the last node.
RECURSIVE put_from(_, _, _, _)
put_from(nd, key, i, value) ==
    IF i > Len(key) THEN [nd EXCEPT !.value = value]
    ELSE LET ch   == key[i]
             kids == DSetDefault(nd.children, ch, EmptyNode)
         IN  [nd EXCEPT !.children =
                 DSet(kids, ch, put_from(DGet(kids, ch, EmptyNode), key, i + 1, value))]

\* Trie.put, lines 14-24: [raised, root, size] after put(key, value).  The
\* empty key raises TypeError before anything is written (lines 15-16).
\* Line 22 reads the value of the last node of the walk, None when the walk
\* has just created it.
put(r, sz, key, value) ==
    IF key = <<>> THEN [raised |-> "TypeError", root |-> r, size |-> sz]
    ELSE [raised |-> "ok",
          root |-> put_from(r, key, 1, value),
          size |-> IF get_from(r, key, 1) = None THEN sz + 1 ELSE sz]

\* Trie.delete's _del, lines 42-53, at node nd with d characters of k
\* consumed: [node, empty, removed], the node as the call leaves it, the
\* value returned, and the number of words taken off self.size.
RECURSIVE del(_, _, _)
del(nd, k, d) ==
    IF d = Len(k)
    THEN IF nd.value # None
         THEN [node |-> [nd EXCEPT !.value = None],
               empty |-> Len(nd.children) = 0, removed |-> 1]
         ELSE [node |-> nd, empty |-> FALSE, removed |-> 0]
    ELSE LET ch == k[d + 1]
         IN  IF ~DHas(nd.children, ch)
             THEN [node |-> nd, empty |-> FALSE, removed |-> 0]
             ELSE LET sub  == del(DGet(nd.children, ch, EmptyNode), k, d + 1)
                      kept == DSet(nd.children, ch, sub.node)
                      cut  == DDel(nd.children, ch)
                  IN  IF sub.empty
                      THEN [node |-> [nd EXCEPT !.children = cut],
                            empty |-> Len(cut) = 0 /\ nd.value = None,
                            removed |-> sub.removed]
                      ELSE [node |-> [nd EXCEPT !.children = kept],
                            empty |-> FALSE, removed |-> sub.removed]

\* Trie.delete, lines 38-55: [raised, root, size] after delete(key).  The
\* empty key raises TypeError (lines 39-40).
delete(r, sz, key) ==
    IF key = <<>> THEN [raised |-> "TypeError", root |-> r, size |-> sz]
    ELSE LET out == del(r, key, 0)
         IN  [raised |-> "ok", root |-> out.node, size |-> sz - out.removed]

\* Trie._collect, lines 90-96: the words of the subtree of nd, in the order
\* appended to out; path is the string of the walk to nd.
RECURSIVE collect(_, _)
RECURSIVE collect_children(_, _, _)
collect(nd, path) ==
    (IF nd.value # None THEN <<path>> ELSE <<>>) \o collect_children(nd.children, path, 1)

\* Lines 93-96, from the i-th child on.
collect_children(kids, path, i) ==
    IF i > Len(kids) THEN <<>>
    ELSE collect(kids[i][2], Append(path, kids[i][1]))
            \o collect_children(kids, path, i + 1)

\* Trie.keys, lines 99-102.
keys(r) == collect(r, <<>>)

\* deque(maxlen = k).append(ch), line 42: a full window drops its leftmost
\* character.
window_append(window, ch, k) ==
    IF Len(window) = k THEN Append(Tail(window), ch) ELSE Append(window, ch)

\* deque.pop(), line 46.
window_pop(window) == SubSeq(window, 1, Len(window) - 1)

\* Homework.count_words_with_suffix's dfs, lines 34-46.  st is
\* [window, cnt], the two variables the closure shares; the result is their
\* state when the call returns.
RECURSIVE dfs(_, _, _)
RECURSIVE dfs_children(_, _, _, _)
dfs(nd, target, st) ==
    LET k   == Len(target)
        hit == nd.value # None /\ Len(st.window) = k /\ st.window = target
        st1 == [st EXCEPT !.cnt = IF hit THEN st.cnt + 1 ELSE st.cnt]
    IN  dfs_children(nd.children, target, st1, 1)

\* Lines 40-46, from the i-th child on.
dfs_children(kids, target, st, i) ==
    IF i > Len(kids) THEN st
    ELSE LET before == Len(st.window)
             into   == [st EXCEPT !.window =
                           window_append(st.window, kids[i][1], Len(target))]
             back   == dfs(kids[i][2], target, into)
             after  == IF Len(back.window) > before
                       THEN [back EXCEPT !.window = window_pop(back.window)]
                       ELSE back
         IN  dfs_children(kids, target, after, i + 1)

\* Homework.count_words_with_suffix, lines 26-49 (pattern a string).
count_words_with_suffix(r, sz, pattern) ==
    IF pattern = <<>> THEN sz
    ELSE dfs(r, pattern, [window |-> <<>>, cnt |-> 0]).cnt

\* Homework.has_prefix, lines 70-76: the search of a node with a value from
\* the stack.
RECURSIVE has_prefix_search(_)
has_prefix_search(stack) ==
    IF stack = <<>> THEN FALSE
    ELSE LET node == stack[Len(stack)]
             rest == SubSeq(stack, 1, Len(stack) - 1)
         IN  IF node.value # None THEN TRUE
             ELSE has_prefix_search(
                     rest \o [i \in 1..Len(node.children) |-> node.children[i][2]])

\* has_prefix_from without the search of the subtree: True as soon as the
\* path of the prefix exists.
RECURSIVE has_prefix_path_only(_, _, _)
has_prefix_path_only(cur, prefix, i) ==
    IF i > Len(prefix) THEN TRUE
    ELSE IF ~DHas(cur.children, prefix[i]) THEN FALSE
    ELSE has_prefix_path_only(DGet(cur.children, prefix[i], EmptyNode), prefix, i + 1)

\* Homework.has_prefix, lines 60-76, from node cur and position i of prefix.
RECURSIVE has_prefix_from(_, _, _)
has_prefix_from(cur, prefix, i) ==
    IF i > Len(prefix)
    THEN IF cur.value # None THEN TRUE ELSE has_prefix_search(<<cur>>)
    ELSE IF ~DHas(cur.children, prefix[i]) THEN FALSE
    ELSE has_prefix_from(DGet(cur.children, prefix[i], EmptyNode), prefix, i + 1)

has_prefix(r, prefix) == has_prefix_from(r, prefix, 1)

\* trie.put(key, value); put(key) is put(key, None).
Put(key, value) ==
    /\ ops < MaxOps
    /\ LET out == put(root, size, key, value)
       IN  /\ root' = out.root
           /\ size' = out.size
    /\ ops' = ops + 1
    /\ tcall' = <<"put", key, value, put(root, size, key, value).raised>>
    /\ tres' = <<>>
    /\ UNCHANGED <<flowVars, runVars>>

\* trie.delete(key)
Delete(key) ==
    /\ ops < MaxOps
    /\ LET out == delete(root, size, key)
       IN  /\ root' = out.root
           /\ size' = out.size
    /\ ops' = ops + 1
    /\ tcall' = <<"delete", key, delete(root, size, key).raised>>
    /\ tres' = <<>>
    /\ UNCHANGED <<flowVars, runVars>>

\* trie.get(key): the value returned, or the exception raised.
Get(key) ==
    /\ tres' = <<"get", key,
                 IF get(root, key).raised = "ok" THEN get(root, key).value
                 ELSE get(root, key).raised>>
    /\ UNCHANGED <<root, size, ops, tcall>>
    /\ UNCHANGED <<flowVars, runVars>>

\* trie.count_words_with_suffix(pattern)
CountWordsWithSuffix(pattern) ==
    /\ tres' = <<"count_words_with_suffix", pattern,
                 count_words_with_suffix(root, size, pattern)>>
    /\ UNCHANGED <<root, size, ops, tcall>>
    /\ UNCHANGED <<flowVars, runVars>>

\* trie.has_prefix(prefix)
HasPrefix(prefix) ==
    /\ tres' = <<"has_prefix", prefix, has_prefix(root, prefix)>>
    /\ UNCHANGED <<root, size, ops, tcall>>
    /\ UNCHANGED <<flowVars, runVars>>

NextTrie ==
    \/ \E key \in Keys, value \in Values : Put(key, value)
    \/ \E key \in Keys : Delete(key)
    \/ \E key \in Keys : Get(key)
    \/ \E pattern \in Strings : CountWordsWithSuffix(pattern)
    \/ \E prefix \in Strings : HasPrefix(prefix)

SpecTrie == Init /\ [][NextTrie]_vars

-----------------------------------------------------------------------------
(* Reading the trie.                                                       *)

\* The words stored: the strings keys() returns.
Words == {keys(root)[i] : i \in 1..Len(keys(root))}

StartsWith(w, p) == Len(p) <= Len(w) /\ SubSeq(w, 1, Len(p)) = p

EndsWith(w, p) == Len(p) <= Len(w) /\ SubSeq(w, Len(w) - Len(p) + 1, Len(w)) = p

Asked(name) == tres # <<>> /\ tres[1] = name

-----------------------------------------------------------------------------
(* Claims about the trie.                                                  *)

\* C8 as claimed: for a non-empty pattern, count_words_with_suffix returns
\* the number of stored words that end with the pattern.
SuffixCountExact ==
    (Asked("count_words_with_suffix") /\ tres[2] # <<>>) =>
        tres[3] = Cardinality({w \in Words : EndsWith(w, tres[2])})

\* C9: has_prefix(prefix) returns True exactly if some stored word starts
\* with prefix, after any puts and deletes.
HasPrefixExact ==
    Asked("has_prefix") =>
        (tres[3] <=> \E w \in Words : StartsWith(w, tres[2]))

\* C9 witness: after the delete of a stored word, has_prefix of that word is
\* still True because a longer word remains, and the trie holds a node
\* without a value on another path.
HasPrefixExactWitness ==
    /\ tcall[1] = "delete" /\ tcall[3] = "ok" /\ tcall[2] # <<>>
    /\ Asked("has_prefix") /\ tres[2] = tcall[2] /\ tres[3] = TRUE
    /\ tcall[2] \notin Words
    /\ \E w \in Words : Len(w) > Len(tcall[2]) /\ StartsWith(w, tcall[2])

\* C10 as claimed: count_words_with_suffix("") is the number of words in the
\* trie, Trie.size being the number of keys that keys() returns.
SizeCountsKeys ==
    /\ size = Len(keys(root))
    /\ (Asked("count_words_with_suffix") /\ tres[2] = <<>>) =>
          tres[3] = Cardinality(Words)

-----------------------------------------------------------------------------
(* Claims about the residual graph.                                        *)

Res(u, v) == DGet(DGet(residual, u, <<>>), v, 0)

\* edmonds_karp holds a residual graph: from _build_residual to the return
\* or the raise.
HasResidual == call[1] = "edmonds_karp" /\ pc \in {"loop", "done", "raised"}

\* C11: between _build_residual and the return of edmonds_karp every entry
\* residual[u][v] has a reciprocal entry residual[v][u], every residual
\* capacity is >= 0, and residual[u][v] + residual[v][u] is the sum of the
\* original capacities of u->v and v->u, an absent edge counting as 0; every
\* original edge has a residual entry.
ResidualReciprocal ==
    HasResidual =>
        /\ \A i \in 1..Len(graph) : \A j \in 1..Len(graph[i][2]) :
              DHas(DGet(residual, graph[i][1], <<>>), graph[i][2][j][1])
        /\ \A i \in 1..Len(residual) : \A j \in 1..Len(residual[i][2]) :
              LET u == residual[i][1]
                  v == residual[i][2][j][1]
                  c == residual[i][2][j][2]
                  back == DGet(residual, v, <<>>)
              IN  /\ DHas(back, u)
                  /\ c >= 0
                  /\ c + DGet(back, u, 0) = Cap(u, v) + Cap(v, u)

\* C11 witness: both a->d and d->a are original edges of capacity 1 and an
\* augmentation over a->d has moved its unit to the residual of d->a.
ResidualReciprocalWitness ==
    /\ HasResidual /\ pc = "loop" /\ total_flow >= 1
    /\ Cap("a", "d") = 1 /\ Cap("d", "a") = 1
    /\ Res("a", "d") = 0 /\ Res("d", "a") = 2

\* Line 149: used = cap0 - cap_res of the original edge u->v.
Used(u, v) == Cap(u, v) - Res(u, v)

\* C12 as claimed: when the loop has ended, cap0 - cap_res is negative for no
\* original edge, so that the clamp of line 150 changes no value.
ClampNeverActs ==
    pc = "done" =>
        \A i \in 1..Len(graph) : \A j \in 1..Len(graph[i][2]) :
            Used(graph[i][1], graph[i][2][j][1]) >= 0

\* C12 amended: cap0 - cap_res is the net flow of u->v against v->u, at least
\* -graph[v][u]; it is negative only if v->u is an original edge of positive
\* capacity as well, and there the clamp turns it into 0; everywhere else
\* the clamp changes nothing.
ClampActsOnAntiparallel ==
    pc = "done" =>
        \A i \in 1..Len(graph) : \A j \in 1..Len(graph[i][2]) :
            LET u    == graph[i][1]
                v    == graph[i][2][j][1]
                cap0 == graph[i][2][j][2]
                used == cap0 - Res(u, v)
            IN  /\ used >= 0 - Cap(v, u)
                /\ used <= cap0
                /\ used < 0 =>
                      /\ DHas(DGet(graph, v, <<>>), u) /\ Cap(v, u) > 0
                      /\ Used(v, u) = 0 - used
                      /\ Flow(u, v) = 0
                /\ used >= 0 => Flow(u, v) = used

\* C12 witness: a->d and d->a are original edges of capacity 1, a unit has
\* gone over a->d, and cap0 - cap_res of d->a is -1, returned as 0.
ClampActsOnAntiparallelWitness ==
    /\ pc = "done" /\ call[1] = "edmonds_karp"
    /\ <<"a", "d">> \in Entries(graph) /\ <<"d", "a">> \in Entries(graph)
    /\ Used("a", "d") = 1 /\ Used("d", "a") = 0 - 1
    /\ Flow("a", "d") = 1 /\ Flow("d", "a") = 0

=============================================================================
